---- MODULE Spec2Model ----
(***************************************************************************)
(* Estimation engine of app/services/analyst_service.py: the cost rollup   *)
(* (estimate_cost) and the dependency scheduler (estimate_timeline).       *)
(*                                                                         *)
(* A task is a Python dict, modelled as a function whose domain is the set *)
(* of keys that are present: "id" and "depends_on" always, "role" and      *)
(* "hours" optionally.  Task ids are the integers 1..n (id i stands for    *)
(* the string "T<i>"); 0 is an id that no task of the list carries.        *)
(*                                                                         *)
(* A datetime is an integer number of ticks since 01.01.2024 00:00, with   *)
(* TicksPerDay ticks in a day, so that a datetime has a date and a time of *)
(* day.  A "DD.MM.YYYY" string is the triple <<dd, mm, yyyy>>.             *)
(***************************************************************************)
EXTENDS Integers, Sequences, FiniteSets, TLC

----------------------------------------------------------------------------
(* Bounds of the model *)

MaxTasks == 3        \* longest task list
TicksPerDay == 2     \* resolution of the time of day of a datetime

\* daily_capacity_hours: int = 6
DefaultDailyCapacity == 6

----------------------------------------------------------------------------
(* datetime, timedelta, strftime("%d.%m.%Y"), strptime(.., "%d.%m.%Y") *)

IsLeap(y) == (y % 4 = 0 /\ y % 100 # 0) \/ y % 400 = 0

DaysInMonth(m, y) ==
    IF m = 2 THEN (IF IsLeap(y) THEN 29 ELSE 28)
    ELSE IF m \in {4, 6, 9, 11} THEN 30 ELSE 31

\* the date that lies n days after the first day of month m of year y
RECURSIVE DayToDMY(_, _, _)
DayToDMY(n, m, y) ==
    IF n < DaysInMonth(m, y) THEN <<n + 1, m, y>>
    ELSE DayToDMY(n - DaysInMonth(m, y),
                  IF m = 12 THEN 1 ELSE m + 1,
                  IF m = 12 THEN y + 1 ELSE y)

\* the number of days from 01.01.2024 to the first day of month m of year y
RECURSIVE DaysBefore(_, _)
DaysBefore(m, y) ==
    IF m = 1 /\ y = 2024 THEN 0
    ELSE IF m = 1 THEN DaysBefore(12, y - 1) + DaysInMonth(12, y - 1)
    ELSE DaysBefore(m - 1, y) + DaysInMonth(m - 1, y)

\* timedelta(days=d)
timedelta(d) == d * TicksPerDay

\* datetime(y, m, d) plus a time of day of tod ticks
datetime(dmy, tod) == timedelta(DaysBefore(dmy[2], dmy[3]) + dmy[1] - 1) + tod

\* _format_date: dt.strftime("%d.%m.%Y") drops the time of day
format_date(dt) == DayToDMY(dt \div TicksPerDay, 1, 2024)

\* datetime.strptime(s, "%d.%m.%Y"): midnight of that date
strptime(s) == datetime(s, 0)

\* (a - b).days of a timedelta: floor of the difference in days
DeltaDays(a, b) == (a - b) \div TicksPerDay

----------------------------------------------------------------------------
(* dict helpers *)

\* t.get(k, d)
Get(t, k, d) == IF k \in DOMAIN t THEN t[k] ELSE d

Max(S) == CHOOSE x \in S : \A y \in S : y <= x

Min(S) == CHOOSE x \in S : \A y \in S : x <= y

RECURSIVE SumSeq(_)
SumSeq(s) == IF s = << >> THEN 0 ELSE Head(s) + SumSeq(Tail(s))

Range(s) == {s[k] : k \in DOMAIN s}

----------------------------------------------------------------------------
(* estimate_timeline: state of one call *)

VARIABLES
    tasks,                 \* argument: the task list
    project_start,         \* argument: a datetime
    daily_capacity_hours,  \* argument
    iterOrder,             \* the order in which this interpreter process
                           \* iterates a set of these ids (hash order)
    pc,                    \* estimate_timeline: "order" | "place" | "done";
                           \* estimate_cost: "cost" | "cost_done"
    deps_map,              \* id -> remaining dependencies
    remaining,             \* set of ids not yet emitted
    ordered,               \* list of tasks, in emitted order
    pos,                   \* position of the for loop in progress
    dates_for_id,          \* insertion-ordered dict, as the list of its values
    role_next_free,        \* role -> datetime
    result,                \* the returned dict, once pc = "done"
    prev,                  \* what an earlier call on the same arguments returned
    rates,                 \* estimate_cost: argument, the rate table
    breakdown,             \* estimate_cost: the cost lines so far
    total,                 \* estimate_cost: the running total
    apc,                   \* analyze_project: the position in it, or "idle"
    raw_response,          \* what llm_service.chat answers, as tokens
    parsed,                \* generate_tasks_from_spec: the dict it returned
    cost,                  \* analyze_project: what estimate_cost returned
    report,                \* analyze_project: the dict it returned
    calls,                 \* calls of generate_tasks_from_spec so far
    error                  \* the exception analyze_project ended with, or ""

vars == <<tasks, project_start, daily_capacity_hours, iterOrder, pc, deps_map,
          remaining, ordered, pos, dates_for_id, role_next_free, result, prev,
          rates, breakdown, total, apc, raw_response, parsed, cost, report,
          calls, error>>

analyzeVars == <<apc, raw_response, parsed, cost, report, calls, error>>

costVars == <<rates, breakdown, total>>

timelineVars == <<project_start, daily_capacity_hours, iterOrder, deps_map,
                  remaining, ordered, dates_for_id, role_next_free, prev>>

NoResult == [none |-> TRUE]

\* estimate_timeline or estimate_cost called on its own
NotAnalyzing ==
    /\ apc = "idle"
    /\ raw_response = << >>
    /\ parsed = NoResult
    /\ cost = NoResult
    /\ report = NoResult
    /\ calls = 0
    /\ error = ""

\* id_map = {t["id"]: t for t in tasks}: the last task of an id wins
IdMap(ts) ==
    [tid \in {ts[k]["id"] : k \in DOMAIN ts} |->
        ts[Max({k \in DOMAIN ts : ts[k]["id"] = tid})]]

\* as DepsMap, without dropping the ids that are not in the list
DepsMapUnfiltered(ts) ==
    [tid \in DOMAIN IdMap(ts) |-> Get(IdMap(ts)[tid], "depends_on", {})]

\* deps_map: depends_on of every id, restricted to ids of the list
DepsMap(ts) ==
    [tid \in DOMAIN IdMap(ts) |->
        {d \in Get(IdMap(ts)[tid], "depends_on", {}) : d \in DOMAIN IdMap(ts)}]

\* [r for r in remaining if not deps_map[r]], in set iteration order
ReadyOf(rem, dm, order) == SelectSeq(order, LAMBDA r : r \in rem /\ dm[r] = {})

\* list(remaining), in set iteration order
ListOf(rem, order) == SelectSeq(order, LAMBDA r : r \in rem)

\* as Ready, without "if not ready: ready = list(remaining)"
ReadyNoFallback(rem, dm, order) == ReadyOf(rem, dm, order)

\* the batch one iteration of "while remaining" emits
Ready(rem, dm, order) ==
    IF ReadyOf(rem, dm, order) # << >> THEN ReadyOf(rem, dm, order)
    ELSE ListOf(rem, order)

\* as LoopContinues, for a loop that stops when no task is ready
LoopContinuesWhileReady(rem, dm, order) == ReadyOf(rem, dm, order) # << >>

\* the condition of "while remaining"
LoopContinues(rem, dm, order) == rem # {}

\* one iteration of "while remaining"
OrderStep ==
    /\ pc = "order"
    /\ LoopContinues(remaining, deps_map, iterOrder)
    /\ LET ready == Ready(remaining, deps_map, iterOrder) IN
        /\ ordered' = ordered \o [k \in 1..Len(ready) |-> IdMap(tasks)[ready[k]]]
        /\ remaining' = remaining \ Range(ready)
        /\ deps_map' = [k \in DOMAIN deps_map |-> deps_map[k] \ Range(ready)]
    /\ UNCHANGED <<tasks, project_start, daily_capacity_hours, iterOrder, pc,
                   pos, dates_for_id, role_next_free, result, prev,
                   costVars,
                   analyzeVars>>

\* the loop ends; "for t in ordered" begins
ExitOrder ==
    /\ pc = "order"
    /\ ~LoopContinues(remaining, deps_map, iterOrder)
    /\ pc' = "place"
    /\ pos' = 1
    /\ UNCHANGED <<tasks, project_start, daily_capacity_hours, iterOrder,
                   deps_map, remaining, ordered, dates_for_id, role_next_free,
                   result, prev, costVars,
                   analyzeVars>>

\* as hours_to_days, dividing without rounding up
hours_to_days_floor(h, cap) == IF h \div cap > 1 THEN h \div cap ELSE 1

\* hours_to_days(h)
hours_to_days(h, cap) ==
    IF (h + cap - 1) \div cap > 1 THEN (h + cap - 1) \div cap ELSE 1

\* round(x) of Python 3 for x = num/den: to nearest, ties to even
RoundHalfEven(num, den) ==
    LET q == num \div den
        r == num % den
    IN  IF 2 * r < den THEN q
        ELSE IF 2 * r > den THEN q + 1
        ELSE IF q % 2 = 0 THEN q ELSE q + 1

\* as BufferDays, rounding up: math.ceil(duration_days * 0.2)
BufferDaysCeil(d) == (2 * d + 9) \div 10

\* buffer_days = max(0, int(round(duration_days * 0.2)))
\* (duration_days * 0.2 is never within a rounding error of a tie: the
\* fractional part of d/5 is one of 0, .2, .4, .6, .8)
BufferDays(d) ==
    IF RoundHalfEven(2 * d, 10) > 0 THEN RoundHalfEven(2 * d, 10) ELSE 0

\* d in dates_for_id
HasKey(dates, d) == \E k \in DOMAIN dates : dates[k]["id"] = d

\* dates_for_id[d]
Lookup(dates, d) == dates[CHOOSE k \in DOMAIN dates : dates[k]["id"] = d]

\* dates_for_id[key] = v: a new key is appended, an old key keeps its place
DictPut(dates, v) ==
    IF HasKey(dates, v["id"])
    THEN [k \in DOMAIN dates |-> IF dates[k]["id"] = v["id"] THEN v ELSE dates[k]]
    ELSE Append(dates, v)

\* deps_end: the parsed end_date of every id of the raw depends_on that is
\* already in dates_for_id
DepsEnd(t, dates) ==
    {strptime(Lookup(dates, d)["end_date"]) :
        d \in {x \in Get(t, "depends_on", {}) : HasKey(dates, x)}}

\* as Earliest, without the dependencies
EarliestProjectStart(t, dates, pstart) == pstart

\* earliest start of a task
Earliest(t, dates, pstart) ==
    IF DepsEnd(t, dates) # {}
    THEN Max({pstart, Max(DepsEnd(t, dates)) + timedelta(1)})
    ELSE pstart

\* role_next_free.get(role, project_start)
RoleFree(rnf, role, pstart) == IF role \in DOMAIN rnf THEN rnf[role] ELSE pstart

\* start = max(earliest, role_free)
StartOf(t, dates, rnf, pstart) ==
    Max({Earliest(t, dates, pstart),
         RoleFree(rnf, Get(t, "role", "default"), pstart)})

\* end_with_buffer
EndWithBuffer(start, d) == start + timedelta(d - 1) + timedelta(BufferDays(d))

\* as NextFree, freeing the role on the day the task ends
NextFreeSameDay(end_with_buffer) == end_with_buffer

\* role_next_free[role] = end_with_buffer + timedelta(days=1)
NextFree(end_with_buffer) == end_with_buffer + timedelta(1)

\* the dict stored in dates_for_id (the title, a display text, is left out)
Entry(t, dates, rnf, pstart, cap) ==
    LET role  == Get(t, "role", "default")
        hours == Get(t, "hours", 0)
        d     == hours_to_days(hours, cap)
        start == StartOf(t, dates, rnf, pstart)
    IN  [id |-> t["id"],
         role |-> role,
         hours |-> hours,
         start_date |-> format_date(start),
         end_date |-> format_date(EndWithBuffer(start, d)),
         duration_days |-> d + BufferDays(d),
         depends_on |-> Get(t, "depends_on", {})]

\* one iteration of "for t in ordered"
PlaceStep ==
    /\ pc = "place"
    /\ pos <= Len(ordered)
    /\ LET t     == ordered[pos]
           role  == Get(t, "role", "default")
           d     == hours_to_days(Get(t, "hours", 0), daily_capacity_hours)
           start == StartOf(t, dates_for_id, role_next_free, project_start)
       IN
        /\ dates_for_id' = DictPut(dates_for_id,
               Entry(t, dates_for_id, role_next_free, project_start,
                     daily_capacity_hours))
        /\ role_next_free' =
               [r \in DOMAIN role_next_free \cup {role} |->
                   IF r = role THEN NextFree(EndWithBuffer(start, d))
                   ELSE role_next_free[r]]
    /\ pos' = pos + 1
    /\ UNCHANGED <<tasks, project_start, daily_capacity_hours, iterOrder, pc,
                   deps_map, remaining, ordered, result, prev, costVars,
                   analyzeVars>>

\* project_end
ProjectEnd(dates, pstart) ==
    IF dates # << >>
    THEN Max({strptime(dates[k]["end_date"]) : k \in DOMAIN dates})
    ELSE pstart

\* total_days = (project_end - project_start).days + 1
TotalDays(pend, pstart) == DeltaDays(pend, pstart) + 1

\* role_days
RoleDays(dates) ==
    [r \in {dates[k]["role"] : k \in DOMAIN dates} |->
        SumSeq([k \in DOMAIN dates |->
            IF dates[k]["role"] = r THEN dates[k]["duration_days"] ELSE 0])]

\* the returned dict
Timeline(dates, pstart) ==
    [project_start |-> format_date(pstart),
     project_end |-> format_date(ProjectEnd(dates, pstart)),
     total_work_days |-> TotalDays(ProjectEnd(dates, pstart), pstart),
     role_days |-> RoleDays(dates),
     task_schedule |-> dates]

\* the loop is over: aggregate and return
Finish ==
    /\ pc = "place"
    /\ pos > Len(ordered)
    /\ result' = Timeline(dates_for_id, project_start)
    /\ pc' = "done"
    /\ UNCHANGED <<tasks, project_start, daily_capacity_hours, iterOrder,
                   deps_map, remaining, ordered, pos, dates_for_id,
                   role_next_free, prev, costVars, analyzeVars>>

\* the same call once more, in a fresh interpreter process: the arguments
\* are the same, the iteration order of a set of str ids need not be
\* (str hashes are salted per process)
Rerun ==
    /\ pc = "done"
    /\ prev = NoResult
    /\ prev' = result
    /\ iterOrder' \in {o \in [1..Len(iterOrder) -> Range(iterOrder)] :
                          Range(o) = Range(iterOrder)}
    /\ pc' = "order"
    /\ deps_map' = DepsMap(tasks)
    /\ remaining' = DOMAIN IdMap(tasks)
    /\ ordered' = << >>
    /\ pos' = 0
    /\ dates_for_id' = << >>
    /\ role_next_free' = << >>
    /\ result' = NoResult
    /\ UNCHANGED <<tasks, project_start, daily_capacity_hours, costVars,
                   analyzeVars>>

----------------------------------------------------------------------------
(* estimate_cost *)

\* DEFAULT_RATES_PER_HOUR
DEFAULT_RATES_PER_HOUR ==
    [backend |-> 500, frontend |-> 350, devops |-> 600, qa |-> 300,
     ux |-> 600, pm |-> 800, default |-> 500]

\* as RateOf, always the default rate
RateOfDefault(rt, role) == rt["default"]

\* rates.get(role, rates["default"])
RateOf(rt, role) == IF role \in DOMAIN rt THEN rt[role] ELSE rt["default"]

\* the dict appended to breakdown (the title, a display text, is left out)
CostLine(t, rt) ==
    [id |-> Get(t, "id", "None"),
     hours |-> Get(t, "hours", 0),
     role |-> Get(t, "role", "default"),
     rate |-> RateOf(rt, Get(t, "role", "default")),
     cost |-> Get(t, "hours", 0) * RateOf(rt, Get(t, "role", "default"))]

\* one iteration of "for t in tasks"
CostStep ==
    /\ pc = "cost"
    /\ pos <= Len(tasks)
    /\ breakdown' = Append(breakdown, CostLine(tasks[pos], rates))
    /\ total' = total + CostLine(tasks[pos], rates)["cost"]
    /\ pos' = pos + 1
    /\ UNCHANGED <<tasks, pc, result, rates, timelineVars, analyzeVars>>

\* return {"breakdown": breakdown, "total": total}
CostReturn ==
    /\ pc = "cost"
    /\ pos > Len(tasks)
    /\ result' = [breakdown |-> breakdown, total |-> total]
    /\ pc' = "cost_done"
    /\ UNCHANGED <<tasks, pos, costVars, timelineVars, analyzeVars>>

----------------------------------------------------------------------------
(* Arguments of estimate_timeline *)

Roles == {"backend", "frontend"}
HoursChoice == {0, 8, 13}
Capacities == {1, DefaultDailyCapacity}
StartDates == {<<1, 1, 2024>>, <<27, 2, 2024>>}

\* the optional keys of a task: present with a value, or absent
RolePart(rs) == {[role |-> r] : r \in rs}
HoursPart(hs) == {[hours |-> h] : h \in hs}
NoKey == {<< >>}

\* a task dict
Task(id, deps, rolePart, hoursPart) ==
    [id |-> id, depends_on |-> deps] @@ rolePart @@ hoursPart

\* permutations of 1..n
Perms(n) == {o \in [1..n -> 1..n] : Range(o) = 1..n}

\* the state at the first test of "while remaining"
Start(ts, pstart, cap, order) ==
    /\ tasks = ts
    /\ project_start = pstart
    /\ daily_capacity_hours = cap
    /\ iterOrder = order
    /\ pc = "order"
    /\ deps_map = DepsMap(ts)
    /\ remaining = DOMAIN IdMap(ts)
    /\ ordered = << >>
    /\ pos = 0
    /\ dates_for_id = << >>
    /\ role_next_free = << >>
    /\ result = NoResult
    /\ prev = NoResult
    /\ rates = << >>
    /\ breakdown = << >>
    /\ total = 0
    /\ NotAnalyzing

\* Task lists for the dependency structure: ids 1..n in input order; every
\* depends_on is any set of ids of the list (itself included) and of the
\* id 0 that is not in the list; any roles (the first task's role is fixed,
\* the scheduler treats all role names alike); task k needs GraphHours[k].
GraphHours == <<13, 0, 8>>

HoursAt(k) == GraphHours[((k - 1) % Len(GraphHours)) + 1]

RECURSIVE GraphLists(_, _)
GraphLists(k, n) ==
    IF k = 0 THEN {<< >>}
    ELSE {Append(l, Task(k, d, r, [hours |-> HoursAt(k)])) :
            l \in GraphLists(k - 1, n),
            d \in SUBSET (0..n),
            r \in RolePart(IF k = 1 THEN {"backend"} ELSE Roles)}

Init ==
    \E n \in 0..MaxTasks :
      \E ts \in GraphLists(n, n), order \in Perms(n),
         tod \in 0..(TicksPerDay - 1) :
            Start(ts, datetime(<<1, 1, 2024>>, tod), DefaultDailyCapacity, order)

Next == OrderStep \/ ExitOrder \/ PlaceStep \/ Finish

Spec == Init /\ [][Next]_vars

\* The same dependency structures with one role and equal hours, and the
\* scheduling of the loop made explicit: a step that can be taken is
\* eventually taken.
RECURSIVE PlainLists(_, _)
PlainLists(k, n) ==
    IF k = 0 THEN {<< >>}
    ELSE {Append(l, Task(k, d, [role |-> "backend"], [hours |-> 8])) :
            l \in PlainLists(k - 1, n), d \in SUBSET (0..n)}

InitFair ==
    \E n \in 0..MaxTasks :
      \E ts \in PlainLists(n, n), order \in Perms(n) :
            Start(ts, datetime(<<1, 1, 2024>>, 0), DefaultDailyCapacity, order)

SpecFair == InitFair /\ [][Next]_vars /\ WF_vars(Next)

\* Independent tasks on role-tracks: no dependencies; all tasks of one
\* role, or of alternating roles, or without a role key; any hours, also an
\* absent hours key; any capacity, start date and time of day.
RolePatterns ==
    {[k \in 1..MaxTasks |-> [role |-> "backend"]],
     [k \in 1..MaxTasks |-> [role |-> IF k % 2 = 1 THEN "backend" ELSE "frontend"]],
     [k \in 1..MaxTasks |-> << >>]}

RECURSIVE TrackLists(_, _)
TrackLists(k, rp) ==
    IF k = 0 THEN {<< >>}
    ELSE {Append(l, Task(k, {}, rp[k], h)) :
            l \in TrackLists(k - 1, rp),
            h \in HoursPart(HoursChoice) \cup NoKey}

InitTrack ==
    \E n \in 0..MaxTasks, rp \in RolePatterns :
      \E ts \in TrackLists(n, rp), order \in Perms(n), sd \in StartDates,
         tod \in 0..(TicksPerDay - 1), cap \in Capacities :
            Start(ts, datetime(sd, tod), cap, order)

SpecTrack == InitTrack /\ [][Next]_vars

\* Two calls on the same arguments, the second in a fresh process
NextRerun == Next \/ Rerun

SpecRerun == InitTrack /\ [][NextRerun]_vars

----------------------------------------------------------------------------
(* Arguments of estimate_cost *)

\* rate tables with a default entry: the built-in one (rates=None) and one
\* that knows a single role
RateTables == {DEFAULT_RATES_PER_HOUR, [qa |-> 7, default |-> 3]}

\* roles of the built-in table, of the small table only by default, of no
\* table ("design"), and an absent role key
CostRoles == {"backend", "qa", "design"}

RECURSIVE CostLists(_)
CostLists(k) ==
    IF k = 0 THEN {<< >>}
    ELSE {Append(l, Task(k, {}, r, h)) :
            l \in CostLists(k - 1),
            r \in RolePart(CostRoles) \cup NoKey,
            h \in HoursPart({0, 8}) \cup NoKey}

InitCost ==
    \E n \in 0..MaxTasks :
      \E ts \in CostLists(n), rt \in RateTables :
        /\ tasks = ts
        /\ rates = rt
        /\ breakdown = << >>
        /\ total = 0
        /\ pos = 1
        /\ pc = "cost"
        /\ result = NoResult
        /\ project_start = 0
        /\ daily_capacity_hours = DefaultDailyCapacity
        /\ iterOrder = << >>
        /\ deps_map = << >>
        /\ remaining = {}
        /\ ordered = << >>
        /\ dates_for_id = << >>
        /\ role_next_free = << >>
        /\ prev = NoResult
        /\ NotAnalyzing

NextCost == CostStep \/ CostReturn

SpecCost == InitCost /\ [][NextCost]_vars

----------------------------------------------------------------------------
(* generate_tasks_from_spec and analyze_project *)

\* The text llm_service.chat answers is a sequence of tokens: prose without
\* braces, the fences ```json ("fence_json") and ``` ("fence"), a brace of the outermost object, a
\* comma between its members, a // comment up to the end of its line, and a
\* member "key": value of that object. The value of a member is a list of
\* task dicts, an object or null; its own braces are balanced.
Tok(x) == [t |-> x]

Member(k, kind, list) == [t |-> "member", key |-> k, kind |-> kind, list |-> list]

\* the token ends with the character }
EndsWithBrace(tok) ==
    tok["t"] = "}" \/ (tok["t"] = "member" /\ tok["kind"] = "object")

\* the token begins with the characters ```
BeginsWithFence(tok) == tok["t"] \in {"fence", "fence_json"}

\* re.search(r"```json\s*(\{.*?\})\s*```", text): the pairs (fence, last
\* token of the group) a match can have
FenceMatches(text) ==
    {m \in (DOMAIN text) \X (DOMAIN text) :
        /\ text[m[1]]["t"] = "fence_json"
        /\ m[1] + 1 < m[2]
        /\ text[m[1] + 1]["t"] = "{"
        /\ EndsWithBrace(text[m[2]])
        /\ m[2] + 1 <= Len(text)
        /\ BeginsWithFence(text[m[2] + 1])}

\* the position where the depth of braces counted from position i is back
\* at 0, or 0 if the text ends before
RECURSIVE BraceScan(_, _, _)
BraceScan(text, i, depth) ==
    IF i > Len(text) THEN 0
    ELSE IF text[i]["t"] = "{" THEN BraceScan(text, i + 1, depth + 1)
    ELSE IF text[i]["t"] = "}" THEN
        IF depth - 1 = 0 THEN i ELSE BraceScan(text, i + 1, depth - 1)
    ELSE BraceScan(text, i + 1, depth)

\* _extract_json_block: the leftmost fenced match with the shortest group,
\* else the first { up to the brace that closes it, else None
extract_json_block(text) ==
    LET fenced == FenceMatches(text)
        first == Min({m[1] : m \in fenced})
        last == Min({m[2] : m \in {f \in fenced : f[1] = first}})
        opens == {i \in DOMAIN text : text[i]["t"] = "{"}
        start == Min(opens)
        stop == BraceScan(text, start, 0)
    IN  IF fenced # {} THEN
            [found |-> TRUE, block |-> SubSeq(text, first + 1, last)]
        ELSE IF opens = {} \/ stop = 0 THEN
            [found |-> FALSE, block |-> << >>]
        ELSE [found |-> TRUE, block |-> SubSeq(text, start, stop)]

\* json.loads accepts the block: { } around members separated by commas
Parseable(block) ==
    /\ Len(block) >= 2
    /\ block[1]["t"] = "{"
    /\ block[Len(block)]["t"] = "}"
    /\ \/ Len(block) = 2
       \/ /\ Len(block) % 2 = 1
          /\ \A i \in 2..(Len(block) - 1) :
                block[i]["t"] = (IF i % 2 = 0 THEN "member" ELSE ",")

\* json.loads(block) of a block it accepts: a dict, the last member of a
\* key wins
json_loads(block) ==
    LET at == {i \in DOMAIN block : block[i]["t"] = "member"}
    IN  [k \in {block[i]["key"] : i \in at} |->
            block[Max({i \in at : block[i]["key"] = k})]]

\* re.sub(r"//.*?$", "", json_block, flags=re.MULTILINE)
StripComments(block) == SelectSeq(block, LAMBDA tok : tok["t"] # "//")

\* what generate_tasks_from_spec does with the answer: the dict it returns,
\* or the ValueError it raises
Generated(text) ==
    LET ex == extract_json_block(text)
        cleaned == StripComments(ex["block"])
    IN  IF ~ex["found"] THEN [ok |-> FALSE, value |-> << >>]
        ELSE IF Parseable(ex["block"]) THEN
            [ok |-> TRUE, value |-> json_loads(ex["block"])]
        ELSE IF Parseable(cleaned) THEN
            [ok |-> TRUE, value |-> json_loads(cleaned)]
        ELSE [ok |-> FALSE, value |-> << >>]


\* the title argument, and the "project" object of an answer
Title == "title"

ProjectObject == [title |-> "parsed title", summary |-> "parsed summary"]

\* parsed.get("project", {"title": title, "summary": ""})
ProjectOf(d) ==
    IF "project" \in DOMAIN d THEN ProjectObject
    ELSE [title |-> Title, summary |-> ""]

\* parsed.get("critical_paths", [])
CriticalPathsOf(d) ==
    IF "critical_paths" \in DOMAIN d THEN d["critical_paths"]["list"] ELSE << >>

\* parsed.get("tasks", []) is a list, and which
TasksIsList(d) == "tasks" \in DOMAIN d => d["tasks"]["kind"] = "list"

TasksOf(d) == IF "tasks" \in DOMAIN d THEN d["tasks"]["list"] ELSE << >>

\* Answers of the model: an object whose inside is any MaxInside tokens out
\* of members, commas, comments and prose, or an object that is never
\* closed, or no object at all; bare, in prose or between fences; and a few
\* answers with a second or a nested object.
MaxInside == 3

AnswerLists ==
    {<< >>,
     <<Task(1, {}, [role |-> "backend"], [hours |-> 8])>>,
     <<Task(1, {}, [role |-> "backend"], [hours |-> 13]),
       Task(2, {1}, [role |-> "frontend"], [hours |-> 8])>>}

InsideTokens ==
    {Member("tasks", "list", l) : l \in AnswerLists}
        \cup {Member("tasks", "null", << >>),
              Member("project", "object", << >>),
              Tok(","), Tok("//"), Tok("prose")}

RECURSIVE Insides(_)
Insides(n) ==
    IF n = 0 THEN {<< >>}
    ELSE Insides(n - 1)
            \cup {Append(i, tok) : i \in {j \in Insides(n - 1) : Len(j) = n - 1},
                                   tok \in InsideTokens}

Before == {<< >>, <<Tok("prose")>>, <<Tok("fence_json")>>}

After == {<< >>, <<Tok("prose")>>, <<Tok("fence")>>}

Responses ==
    {b \o <<Tok("{")>> \o i \o <<Tok("}")>> \o a :
        b \in Before, i \in Insides(MaxInside), a \in After}
    \cup {b \o <<Tok("{")>> \o i \o a :
            b \in Before, i \in Insides(1), a \in After}
    \cup {b \o a : b \in Before, a \in After}
    \cup {<<Tok("{"), Tok("}"), Tok("fence_json"), Tok("{"),
            Member("tasks", "list", << >>), Tok("}"), Tok("fence")>>,
          <<Tok("{"), Tok("{"), Tok("}"), Tok("}")>>,
          <<Tok("{"), Member("project", "object", << >>), Tok("}"),
            Tok("{"), Member("tasks", "null", << >>), Tok("}")>>,
          <<Tok("fence_json"), Tok("{"), Member("project", "object", << >>),
            Tok("fence")>>}

\* datetime.now() at the call of estimate_timeline
Nows == {datetime(<<31, 12, 2024>>, tod) : tod \in 0..(TicksPerDay - 1)}

\* await llm_service.chat(...) answers
AnalyzeChat ==
    /\ apc = "start"
    /\ \E r \in Responses : raw_response' = r
    /\ calls' = calls + 1
    /\ apc' = "chat"
    /\ UNCHANGED <<tasks, pc, pos, result, parsed, cost, report, error,
                   costVars, timelineVars>>

\* await llm_service.chat(...) raises: the provider is not installed or
\* not reachable
AnalyzeChatRaises ==
    /\ apc = "start"
    /\ calls' = calls + 1
    /\ error' = "Exception"
    /\ apc' = "raised"
    /\ UNCHANGED <<tasks, pc, pos, result, raw_response, parsed, cost, report,
                   costVars, timelineVars>>

\* the rest of generate_tasks_from_spec: it returns the dict to
\* analyze_project, or its ValueError leaves analyze_project
AnalyzeParse ==
    /\ apc = "chat"
    /\ IF Generated(raw_response)["ok"]
       THEN /\ parsed' = Generated(raw_response)["value"]
            /\ apc' = "generated"
            /\ error' = error
       ELSE /\ error' = "ValueError"
            /\ apc' = "raised"
            /\ parsed' = parsed
    /\ UNCHANGED <<tasks, pc, pos, result, raw_response, cost, report, calls,
                   costVars, timelineVars>>

\* tasks = parsed.get("tasks", []) and the call of estimate_cost up to its
\* loop; "for t in tasks" raises TypeError on a value that is no list
AnalyzeCost ==
    /\ apc = "generated"
    /\ IF TasksIsList(parsed)
       THEN /\ tasks' = TasksOf(parsed)
            /\ rates' = DEFAULT_RATES_PER_HOUR
            /\ breakdown' = << >>
            /\ total' = 0
            /\ pos' = 1
            /\ pc' = "cost"
            /\ apc' = "cost"
            /\ error' = error
       ELSE /\ error' = "TypeError"
            /\ apc' = "raised"
            /\ UNCHANGED <<tasks, pc, pos, costVars>>
    /\ UNCHANGED <<result, raw_response, parsed, cost, report, calls,
                   timelineVars>>

\* cost = the dict estimate_cost returned, and the call
\* estimate_timeline(tasks, project_start=datetime.now()) up to its loop
AnalyzeTimeline ==
    /\ apc = "cost"
    /\ pc = "cost_done"
    /\ cost' = result
    /\ \E now \in Nows : project_start' = now
    /\ iterOrder' \in {o \in [1..Cardinality(DOMAIN IdMap(tasks)) ->
                                 DOMAIN IdMap(tasks)] :
                          Range(o) = DOMAIN IdMap(tasks)}
    /\ daily_capacity_hours' = DefaultDailyCapacity
    /\ deps_map' = DepsMap(tasks)
    /\ remaining' = DOMAIN IdMap(tasks)
    /\ ordered' = << >>
    /\ pos' = 0
    /\ dates_for_id' = << >>
    /\ role_next_free' = << >>
    /\ result' = NoResult
    /\ pc' = "order"
    /\ apc' = "timeline"
    /\ UNCHANGED <<tasks, prev, raw_response, parsed, report, calls, error,
                   costVars>>

\* the return of analyze_project; datetime.now() is read once more
AnalyzeReturn ==
    /\ apc = "timeline"
    /\ pc = "done"
    /\ \E later \in 0..1 :
          report' = [project |-> ProjectOf(parsed),
                     tasks |-> tasks,
                     critical_paths |-> CriticalPathsOf(parsed),
                     cost_estimate |-> cost,
                     timeline_estimate |-> result,
                     generated_at |-> format_date(project_start + later)]
    /\ apc' = "returned"
    /\ UNCHANGED <<tasks, pc, pos, result, raw_response, parsed, cost, calls,
                   error, costVars, timelineVars>>


\* analyze_project is called
InitAnalyze ==
    /\ apc = "start"
    /\ raw_response = << >>
    /\ parsed = NoResult
    /\ cost = NoResult
    /\ report = NoResult
    /\ calls = 0
    /\ error = ""
    /\ tasks = << >>
    /\ pc = "idle"
    /\ pos = 0
    /\ result = NoResult
    /\ rates = << >>
    /\ breakdown = << >>
    /\ total = 0
    /\ project_start = 0
    /\ daily_capacity_hours = DefaultDailyCapacity
    /\ iterOrder = << >>
    /\ deps_map = << >>
    /\ remaining = {}
    /\ ordered = << >>
    /\ dates_for_id = << >>
    /\ role_next_free = << >>
    /\ prev = NoResult

NextAnalyze ==
    \/ AnalyzeChat \/ AnalyzeChatRaises \/ AnalyzeParse \/ AnalyzeCost
    \/ CostStep \/ CostReturn \/ AnalyzeTimeline
    \/ OrderStep \/ ExitOrder \/ PlaceStep \/ Finish
    \/ AnalyzeReturn

SpecAnalyze == InitAnalyze /\ [][NextAnalyze]_vars

----------------------------------------------------------------------------
(* Properties *)

\* the ids of the task list
InputIds == {tasks[k]["id"] : k \in DOMAIN tasks}

\* t.get("depends_on") of the task with id a
DependsOn(a) == Get(IdMap(tasks)[a], "depends_on", {})

\* the day number of a "DD.MM.YYYY" date, counted from 01.01.2024
DayNumber(dmy) == DaysBefore(dmy[2], dmy[3]) + dmy[1] - 1

\* the schedule entry of id a
ScheduleOf(a) == Lookup(result["task_schedule"], a)

\* the least k with k * b >= a
CeilDiv(a, b) == CHOOSE k \in 0..a : k * b >= a /\ \A j \in 0..a : j * b >= a => k <= j

\* C1: the returned task_schedule has exactly one entry for every input
\* task id, whatever cycles, self-references and unknown ids depends_on has.
ScheduleCoversEveryTask ==
    pc = "done" =>
        LET sch == result["task_schedule"] IN
        /\ \A a \in InputIds :
              Cardinality({j \in DOMAIN sch : sch[j]["id"] = a}) = 1
        /\ \A j \in DOMAIN sch : sch[j]["id"] \in InputIds

ScheduleCoversWitness ==
    /\ pc = "done"
    /\ Len(tasks) = 3
    /\ DependsOn(1) = {0, 2}
    /\ DependsOn(2) = {1}
    /\ DependsOn(3) = {3}
    /\ Len(result["task_schedule"]) = 3

\* C2, as stated: whenever A lists B in depends_on and B does not list A,
\* A starts strictly after B ends in the returned schedule, also when A or
\* B is part of a dependency cycle of other tasks or depends on one.
DependencyOrderRespected ==
    pc = "done" =>
        \A a, b \in InputIds :
            (b \in DependsOn(a) /\ a \notin DependsOn(b)) =>
                DayNumber(ScheduleOf(a)["start_date"]) >
                    DayNumber(ScheduleOf(b)["end_date"])

\* the position of id a in the returned task_schedule (the emitted order)
EmittedAt(a) ==
    CHOOSE j \in DOMAIN result["task_schedule"] :
        result["task_schedule"][j]["id"] = a

\* C2, amended: whenever A lists B in depends_on, B does not list A and B
\* was emitted before A, A starts strictly after B ends.  (B is emitted
\* after A only when both are in the batch of the cycle fallback.)
DependencyOrderWhenEmittedFirst ==
    pc = "done" =>
        \A a, b \in InputIds :
            (b \in DependsOn(a) /\ a \notin DependsOn(b)
                /\ EmittedAt(b) < EmittedAt(a)) =>
                DayNumber(ScheduleOf(a)["start_date"]) >
                    DayNumber(ScheduleOf(b)["end_date"])

\* task 1 depends on task 2, which is in a cycle with task 3; task 2 was
\* emitted first and task 1 of another role waits for it
DependencyOrderWitness ==
    /\ pc = "done"
    /\ Len(tasks) = 3
    /\ DependsOn(1) = {2}
    /\ DependsOn(2) = {3}
    /\ DependsOn(3) = {2}
    /\ tasks[2]["role"] # tasks[1]["role"]
    /\ EmittedAt(2) < EmittedAt(1)
    /\ ScheduleOf(2)["end_date"] = <<1, 1, 2024>>
    /\ ScheduleOf(1)["start_date"] = <<2, 1, 2024>>

\* C3: two tasks of one role have disjoint date ranges, the task emitted
\* earlier first: the later one starts at least a day after the earlier
\* one's buffered end.
RoleTracksDisjoint ==
    pc = "done" =>
        \A i, j \in DOMAIN ordered :
            (i < j /\ Get(ordered[i], "role", "default")
                        = Get(ordered[j], "role", "default")) =>
                LET e == ScheduleOf(ordered[i]["id"])
                    l == ScheduleOf(ordered[j]["id"])
                IN  /\ DayNumber(e["start_date"]) <= DayNumber(e["end_date"])
                    /\ DayNumber(l["start_date"]) <= DayNumber(l["end_date"])
                    /\ DayNumber(l["start_date"]) >= DayNumber(e["end_date"]) + 1

RoleTracksWitness ==
    /\ pc = "done"
    /\ Len(tasks) = 3
    /\ \A k \in DOMAIN tasks : tasks[k]["role"] = "backend"
    /\ DependsOn(1) = {2}
    /\ DependsOn(2) = {}
    /\ DependsOn(3) = {}
    /\ project_start % TicksPerDay # 0
    /\ ScheduleOf(1)["start_date"] = <<4, 1, 2024>>

\* C4: estimate_cost returns one line per task in input order, each with
\* cost = hours x rate, the rate being the table entry of the task's role or
\* the default entry when the table lacks the role; hours count as 0 when
\* the key is absent; total is the sum of the costs.
CostIsHoursTimesRate ==
    pc = "cost_done" =>
        LET b == result["breakdown"] IN
        /\ Len(b) = Len(tasks)
        /\ \A k \in DOMAIN tasks :
            LET h == IF "hours" \in DOMAIN tasks[k] THEN tasks[k]["hours"] ELSE 0
                r == IF "role" \in DOMAIN tasks[k] /\ tasks[k]["role"] \in DOMAIN rates
                     THEN rates[tasks[k]["role"]]
                     ELSE rates["default"]
            IN  /\ b[k]["id"] = tasks[k]["id"]
                /\ b[k]["hours"] = h
                /\ b[k]["rate"] = r
                /\ b[k]["cost"] = h * r
        /\ result["total"] = SumSeq([k \in DOMAIN b |-> b[k]["cost"]])

CostWitness ==
    /\ pc = "cost_done"
    /\ Len(tasks) = 3
    /\ rates = DEFAULT_RATES_PER_HOUR
    /\ Get(tasks[1], "role", "") = "design" /\ Get(tasks[1], "hours", 0) = 8
    /\ Get(tasks[2], "role", "") = "qa" /\ Get(tasks[2], "hours", 0) = 8
    /\ "hours" \notin DOMAIN tasks[3]
    /\ result["total"] = 6400

\* C5: a second call of estimate_timeline on the same task list, project
\* start and capacity returns what the first call returned.
RerunReturnsTheSame ==
    (pc = "done" /\ prev # NoResult) => result = prev

\* C6: every iteration of the ordering loop takes at least one id out of
\* remaining, and the call returns.
OrderingLoopTerminates ==
    /\ [][(pc = "order" /\ pc' = "order") =>
            (remaining' \subseteq remaining /\ remaining' # remaining)]_vars
    /\ <>(pc = "done")

\* a second batch is about to be emitted by the fallback
OrderingLoopWitness ==
    /\ pc = "order"
    /\ ordered # << >>
    /\ remaining # {}
    /\ ReadyOf(remaining, deps_map, iterOrder) = << >>
    /\ 0 \in DependsOn(1)

\* C7: of two tasks of different roles that depend on each other, each
\* starts on the project start date.
CircularPairStartsAtProjectStart ==
    (/\ pc = "done"
     /\ Len(tasks) = 2
     /\ DependsOn(1) = {2}
     /\ DependsOn(2) = {1}
     /\ tasks[1]["role"] # tasks[2]["role"]) =>
        \A a \in InputIds :
            ScheduleOf(a)["start_date"] = format_date(project_start)

\* two independent tasks of one role, 8 hours each, capacity 6, start 01.01.2024
TwoTaskScenario ==
    /\ Len(tasks) = 2
    /\ \A k \in DOMAIN tasks :
        /\ Get(tasks[k], "hours", 0) = 8
        /\ Get(tasks[k], "depends_on", {}) = {}
    /\ Get(tasks[1], "role", "default") = Get(tasks[2], "role", "default")
    /\ daily_capacity_hours = 6
    /\ format_date(project_start) = <<1, 1, 2024>>

\* C8, as stated: the first task ends on 03.01.2024 after a buffer of one
\* day, with duration_days 3, and the second starts on 04.01.2024.
TwoTaskScenarioBufferOneDay ==
    (pc = "done" /\ TwoTaskScenario) =>
        LET sch == result["task_schedule"] IN
        /\ sch[1]["start_date"] = <<1, 1, 2024>>
        /\ sch[1]["end_date"] = <<3, 1, 2024>>
        /\ sch[1]["duration_days"] = 3
        /\ sch[2]["start_date"] = <<4, 1, 2024>>

\* C8, amended: the task emitted first takes 2 raw days, 01.01-02.01, its
\* buffer round(2 x 0.2) is 0 days, so it ends on 02.01.2024 with
\* duration_days 2, and the other task starts on 03.01.2024.
TwoTaskScenarioNoBuffer ==
    (pc = "done" /\ TwoTaskScenario) =>
        LET sch == result["task_schedule"] IN
        /\ sch[1]["start_date"] = <<1, 1, 2024>>
        /\ sch[1]["end_date"] = <<2, 1, 2024>>
        /\ sch[1]["duration_days"] = 2
        /\ sch[2]["start_date"] = <<3, 1, 2024>>
        /\ sch[2]["end_date"] = <<4, 1, 2024>>

TwoTaskScenarioWitness ==
    /\ pc = "done"
    /\ TwoTaskScenario
    /\ Get(tasks[1], "role", "") = "backend"
    /\ result["task_schedule"][1]["id"] = 2
    /\ result["task_schedule"][2]["start_date"] = <<3, 1, 2024>>

\* C9: total_work_days is the inclusive number of calendar days from the
\* project start date to the project end date, the latest end_date of the
\* schedule or the start date when it is empty; it is at least 1.
TotalWorkDaysInclusive ==
    pc = "done" =>
        LET sch == result["task_schedule"]
            first == DayNumber(format_date(project_start))
            last == IF sch = << >> THEN first
                    ELSE Max({DayNumber(sch[k]["end_date"]) : k \in DOMAIN sch})
        IN  /\ DayNumber(result["project_end"]) = last
            /\ result["total_work_days"] = last - first + 1
            /\ result["total_work_days"] >= 1

\* C10: duration_days of every scheduled task is at least
\* ceil(hours / daily_capacity) and at least 1; it is 1 for a task of 0
\* hours or without an hours key, which has raw duration 1 and buffer 0.
DurationCoversHours ==
    pc = "done" =>
        \A a \in InputIds :
            LET h == IF "hours" \in DOMAIN IdMap(tasks)[a]
                     THEN IdMap(tasks)[a]["hours"] ELSE 0
                e == ScheduleOf(a)
            IN  /\ e["duration_days"] >= CeilDiv(h, daily_capacity_hours)
                /\ e["duration_days"] >= 1
                /\ DayNumber(e["end_date"]) - DayNumber(e["start_date"]) + 1
                       = e["duration_days"]
                /\ h = 0 => e["duration_days"] = 1

DurationWitness ==
    /\ pc = "done"
    /\ Len(tasks) = 3
    /\ daily_capacity_hours = 6
    /\ "hours" \notin DOMAIN tasks[1]
    /\ Get(tasks[2], "hours", 8) = 0
    /\ Get(tasks[3], "hours", 0) = 13
    /\ ScheduleOf(1)["duration_days"] = 1
    /\ ScheduleOf(2)["duration_days"] = 1
    /\ ScheduleOf(3)["duration_days"] = 4

\* the dependencies of id a that are ids of the list
ExistingDeps(a) == DependsOn(a) \cap InputIds

\* the ids reachable from the ids of S along existing dependencies, in at
\* most k steps
RECURSIVE ReachFrom(_, _)
ReachFrom(S, k) ==
    IF k = 0 THEN {}
    ELSE LET step == UNION {ExistingDeps(b) : b \in S}
         IN  step \cup ReachFrom(step, k - 1)

\* no cycle and no self-reference among the ids of the list
AcyclicInput == \A a \in InputIds : a \notin ReachFrom({a}, Len(tasks))

\* the day the role-track of id a is free: the day after the end_date of
\* the last task of its role before it in the schedule, if there is one
TrackFreeDay(a) ==
    LET sch == result["task_schedule"]
        before == {j \in DOMAIN sch :
                      j < EmittedAt(a) /\ sch[j]["role"] = sch[EmittedAt(a)]["role"]}
    IN  IF before = {} THEN DayNumber(format_date(project_start))
        ELSE DayNumber(sch[Max(before)]["end_date"]) + 1

\* C12: when the dependencies among the ids of the list have no cycle and
\* no self-reference, every task is emitted after all of its existing
\* dependencies and starts on the latest of the project start date, the day
\* after the latest end_date of its existing dependencies and the day its
\* role-track is free; so it starts strictly after each of them ends, and
\* ids that are not in the list change no date.
AcyclicStartIsLatestConstraint ==
    (pc = "done" /\ AcyclicInput) =>
        \A a \in InputIds :
            /\ \A b \in ExistingDeps(a) :
                /\ EmittedAt(b) < EmittedAt(a)
                /\ DayNumber(ScheduleOf(a)["start_date"]) >
                       DayNumber(ScheduleOf(b)["end_date"])
            /\ DayNumber(ScheduleOf(a)["start_date"]) =
                   Max({DayNumber(format_date(project_start)), TrackFreeDay(a)}
                       \cup {DayNumber(ScheduleOf(b)["end_date"]) + 1 :
                                b \in ExistingDeps(a)})

\* task 3 waits for the later of its two dependencies, not for its role
AcyclicStartWitness ==
    /\ pc = "done"
    /\ Len(tasks) = 3
    /\ DependsOn(1) = {0}
    /\ DependsOn(2) = {}
    /\ DependsOn(3) = {0, 1, 2}
    /\ tasks[2]["role"] = "frontend"
    /\ tasks[3]["role"] = "frontend"
    /\ project_start % TicksPerDay # 0
    /\ ScheduleOf(1)["end_date"] = <<4, 1, 2024>>
    /\ ScheduleOf(2)["end_date"] = <<1, 1, 2024>>
    /\ ScheduleOf(3)["start_date"] = <<5, 1, 2024>>

\* the answer holds a well-formed task list: a JSON block can be extracted
\* and parsed, and the object has a "tasks" member that is a list
HasTaskList(text) ==
    /\ Generated(text)["ok"]
    /\ "tasks" \in DOMAIN Generated(text)["value"]
    /\ Generated(text)["value"]["tasks"]["kind"] = "list"

ReportKeys ==
    {"project", "tasks", "critical_paths", "cost_estimate",
     "timeline_estimate", "generated_at"}

\* C11: analyze_project calls the task generator exactly once and ends in
\* one of two ways: when the answer holds no well-formed task list (no JSON
\* block, unparseable JSON, an object without a tasks list) it fails with
\* the generation failure, and neither the cost estimator nor the scheduler
\* has run; otherwise it returns a report with all six keys. A partial
\* report is never returned.
AnalyzeFailsOrReportsCompletely ==
    /\ calls <= 1
    /\ (apc # "start") => calls = 1
    /\ (apc # "returned") => report = NoResult
    /\ (apc \in {"returned", "raised"}) =>
          IF HasTaskList(raw_response)
          THEN /\ apc = "returned"
               /\ DOMAIN report = ReportKeys
          ELSE /\ apc = "raised"
               /\ error \in {"ValueError", "Exception"}
               /\ pc = "idle"
               /\ cost = NoResult
               /\ result = NoResult

====
